---------------------------- MODULE Spec2Model ----------------------------
(***************************************************************************)
(* TinyCam streaming client: the session protocol engine of                *)
(*   src/TinyCamClientExample/Python/tinycam.py     (get_chunks, "gc")     *)
(*   src/TinyCamClientExample/stream_downloader.py  (iter_plain_chunks,    *)
(*                                                   "ipc")                *)
(* and the reconnect loop of main_async around it.                         *)
(*                                                                         *)
(* Cryptography is symbolic: hkdf_sha256 and the AES-GCM tag are injective *)
(* terms, so a frame authenticates exactly when it was sealed under the    *)
(* same key, nonce, associated data and ciphertext the client uses.        *)
(* Time is counted in whole seconds from the instant the transport opened  *)
(* (AwaitingHello) or the receive loop was entered (Streaming); what falls *)
(* on the same second (a message, a watchdog poll, a ping) comes in any    *)
(* order, and a sleep that has ended runs before the next second.          *)
(***************************************************************************)
EXTENDS Integers, Sequences, FiniteSets, TLC

(* ------------------------------ bounds -------------------------------- *)
\* connection attempts main_async may start and inbound messages received in
\* Streaming per attempt, when the sessions are explored in depth with the
\* clock stopped (Spec)
MaxAttempts == 2
MaxMsgs == 3
\* seconds that pass in Streaming and pings heartbeat_task may try in the
\* short timed session explored beside them (Spec, LoopSpec)
ProbeTicks == 2
ProbePings == 1
ProbeMsgs == 1
\* attempts and messages when the reconnect loop is explored (LoopSpec)
LoopAttempts == 7
LoopMsgs == 1
\* messages, seconds and pings when the health tasks are explored
\* (HealthSpec)
HealthMsgs == 1
HealthTicks == 3
HealthPings == 2
\* the configured first_frame_timeout (seconds) the model runs with
FirstFrameTimeout == 1
\* seconds the model lets pass in AwaitingHello
MaxNow == 3
\* the configured ws_timeout (seconds) the model runs with
WsTimeout == 2

(* ------------------------- program constants -------------------------- *)
\* len(buf) < 28 : nonce(12) + tag(16)
MinFrameLen == 28
\* min(backoff, 10.0)
BackoffCap == 10
\* hkdf_sha256(ikm=access_key, salt=salt, info=info, length=32)
KeyLen == 32

Variants == {"gc", "ipc"}

VARIABLES
  variant,       \* which client is running: get_chunks or iter_plain_chunks
  access_key_b64,\* keys.access_key_b64, the configured access key text
  inactivity_timeout, \* self.inactivity_timeout (seconds)
  budget,        \* what is explored: [attempts, msgs, ticks, pings, ...]
  mpc,           \* main_async position: "try" | "stream" | "sleep" | "halt"
  backoff,       \* main_async.backoff
  attempt,       \* attempts started so far
  slept,         \* the argument of the current/last asyncio.sleep
  state,         \* handshake state of the current attempt
  now,           \* seconds elapsed in the current wait
  exp,           \* exp = int(time.time()) + 60
  client_nonce,  \* os.urandom(16)
  hello,         \* the first inbound message, hello_msg (NoHello before it)
  conn_id,       \* safe_b64decode(hello["conn"])
  session_key,   \* hkdf_sha256(...)
  aad,           \* associated data string
  last_counter,  \* iter_plain_chunks.last_counter
  first_bin_seen,\* get_chunks.first_bin_seen
  last_rx_ts,    \* get_chunks.last_rx_ts
  first_bin_deadline, \* get_chunks.first_bin_deadline
  hb_task,       \* heartbeat task: "none" | "running" | "done" | "cancelled"
  wd_task,       \* watchdog task:  "none" | "running" | "done" | "cancelled"
  ws,            \* the transport: "none" | "open" | "closing" | "closed"
  hb_next,       \* the instant heartbeat_task's sleep ends
  wd_due,        \* watchdog_task's 1-second sleep has ended, its test is next
  pings,         \* heartbeat_task's ws.send calls: [at |-> instant, ok |-> sent]
  closes,        \* watchdog_task's ws.close calls: [code, reason, at, raised]
  sent,          \* messages the client sent on this transport, in order
  rx,            \* messages received in Streaming on this transport, in order
  dec,           \* indices of rx handed to aesgcm.decrypt
  yielded,       \* chunks yielded this attempt: [i |-> index in rx, pt |-> bytes]
  file,          \* the bytes of the output file stream_to_file writes
  err            \* the exception that ended the attempt ("" while none)

vars == <<variant, access_key_b64, inactivity_timeout, budget, mpc, backoff,
          attempt, slept, state, now, exp, client_nonce, hello, conn_id,
          session_key, aad, last_counter, first_bin_seen, last_rx_ts,
          first_bin_deadline, hb_task, wd_task, ws, hb_next, wd_due, pings,
          closes, sent, rx, dec, yielded, file, err>>

cfgVars == <<variant, access_key_b64, inactivity_timeout, budget>>
healthVars == <<hb_task, wd_task, hb_next, wd_due, pings, closes>>

mainVars == <<mpc, backoff, attempt, slept>>
sessVars == <<hello, conn_id, session_key, aad, last_counter, first_bin_seen,
              last_rx_ts, first_bin_deadline, sent, rx, dec, yielded>>

Min(a, b) == IF a <= b THEN a ELSE b

(* --------------------------- byte strings ----------------------------- *)
\* struct.unpack(">Q", b)[0]: big-endian, most significant byte first
RECURSIVE be_u64(_)
be_u64(b) == IF b = <<>> THEN 0
             ELSE 256 * be_u64(SubSeq(b, 1, Len(b) - 1)) + b[Len(b)]

\* the 8 bytes of counter c as the server writes them (big-endian)
RECURSIVE BeBytes(_, _)
BeBytes(c, n) == IF n = 0 THEN <<>>
                 ELSE Append(BeBytes(c \div 256, n - 1), c % 256)

\* base64 text of the conn field -> the bytes it decodes to
B64Conn == [ t \in {"AAAAAQ==", "AAAAAg==", "AAAA"} |->
               IF t = "AAAAAQ==" THEN <<0, 0, 0, 1>>
               ELSE IF t = "AAAAAg==" THEN <<0, 0, 0, 2>>
               ELSE <<0, 0, 0>> ]

safe_b64decode(s) == B64Conn[s]

\* the access key texts a keys file may hold: "a2V5" decodes; "A" (a single
\* data character, which padding cannot repair) makes base64.b64decode
\* raise binascii.Error
KeyTexts == {"a2V5", "A"}
B64Raises(s) == s = "A"

(* ------------------------- symbolic crypto ---------------------------- *)
AccessKey == "accessKey"

hkdf_sha256(ikm, salt, info, length) ==
  [ikm |-> ikm, salt |-> salt, info |-> info, len |-> length]

NoKey == hkdf_sha256("", <<0, 0>>, "", 0)
ForgedKey == hkdf_sha256("attacker", <<0, 0>>, "", KeyLen)

MkAad(conn_b64, e, fmt) == [conn |-> conn_b64, exp |-> e, fmt |-> fmt]
NoAad == MkAad("", 0, "")

\* AES-CTR part of GCM: the ciphertext of plaintext pt under (key, nonce)
CtrEnc(key, nonce, pt) == [key |-> key, nonce |-> nonce, pt |-> pt]
NoCt == CtrEnc(NoKey, <<>>, <<>>)

\* the GCM tag of ciphertext ct under (key, nonce, associated data)
GcmTag(key, nonce, ad, ct) == [key |-> key, nonce |-> nonce, aad |-> ad, ct |-> ct]
NoTag == GcmTag(NoKey, <<>>, NoAad, NoCt)

join_ct_tag(ct, tag) == [ct |-> ct, tag |-> tag]

\* AESGCM(key).decrypt(nonce, data, aad): the plaintext, or InvalidTag
aesgcm_decrypt(key, nonce, data, ad) ==
  IF data.tag = GcmTag(key, nonce, ad, data.ct)
  THEN [ok |-> TRUE, plain |-> data.ct.pt]
  ELSE [ok |-> FALSE, plain |-> <<>>]

(* ------------------------------ messages ------------------------------ *)
HkdfInfo == "tinycam hkdf v1"
Fmt == "vp9|1280x720|30"
ConnTexts == DOMAIN B64Conn
\* the 4-byte connection ids a frame's nonce may start with
ConnBytes == {c \in {B64Conn[t] : t \in ConnTexts} : Len(c) = 4}
\* the conn texts of a server that sends 4-byte connection ids
ConnTexts4 == {t \in ConnTexts : Len(B64Conn[t]) = 4}
\* the values int(time.time()) + 60 may take, at the client and at the server
Exps == {1, 2}
\* the values of os.urandom(16), and of the server's nonce
ClientNonces == {1}
ServerNonces == {1}
\* the counters the peer numbers its frames with (one of them two bytes
\* wide), each with the 8 bytes that carry it
Counters == {0, 1, 256}
CounterBytes == [c \in Counters |-> BeBytes(c, 8)]
\* the chunks the peer sends: none (a 28-byte frame) or one byte
Payloads == {<<>>, <<170>>}

MkHello(kind, json, type, complete, snonce, conn, e) ==
  [kind |-> kind, json |-> json, type |-> type, complete |-> complete,
   snonce |-> snonce, conn |-> conn, exp |-> e, fmt |-> Fmt]
NoHello == MkHello("none", "", "", FALSE, 0, "", 0)

\* what the peer may send first: a well-formed hello, or anything else
ValidHellos ==
  {MkHello("text", "object", "hello", TRUE, sn, c, e) :
     sn \in ServerNonces, c \in budget.conns, e \in Exps}
BadFirstMsgs ==
  {MkHello("bin", "", "", FALSE, 0, "", 0),
   MkHello("text", "invalid", "", FALSE, 0, "", 0),
   MkHello("text", "array", "", FALSE, 0, "", 0),
   MkHello("text", "object", "other", FALSE, 0, "", 0),
   MkHello("text", "object", "hello", FALSE, 0, "", 0),
   \* every field of a hello, but another type / sent as a binary message
   MkHello("text", "object", "other", TRUE, 1, "AAAAAQ==", 1),
   MkHello("bin", "object", "hello", TRUE, 1, "AAAAAQ==", 1)}
FirstMsgs == ValidHellos \cup BadFirstMsgs

TextMsg == [kind |-> "text", len |-> 0, nonce |-> <<>>, tag |-> NoTag, ct |-> NoCt]
ShortFrame == [kind |-> "bin", len |-> MinFrameLen - 1, nonce |-> <<>>,
               tag |-> NoTag, ct |-> NoCt]

\* a binary frame nonce(12) || tag(16) || ciphertext, sealed by its sender
\* under key k and associated data ad
MkFrame(conn, ctr, pt, k, ad) ==
  LET nonce == conn \o CounterBytes[ctr]
      ct == CtrEnc(k, nonce, pt)
  IN [kind |-> "bin", len |-> MinFrameLen + Len(pt), nonce |-> nonce,
      tag |-> GcmTag(k, nonce, ad, ct), ct |-> ct]

\* the key the server derives for this connection
ServerKey ==
  hkdf_sha256(AccessKey, <<client_nonce, hello.snonce>>, HkdfInfo, KeyLen)

\* how a frame reaching the client may have been sealed: by the server with
\* the exp it confirmed, by the server with the exp the client requested, or
\* by someone without the session key
Seals ==
  {[k |-> ServerKey, ad |-> MkAad(hello.conn, hello.exp, hello.fmt)],
   [k |-> ServerKey, ad |-> MkAad(hello.conn, exp, hello.fmt)],
   [k |-> ForgedKey, ad |-> MkAad(hello.conn, hello.exp, hello.fmt)]}

FullFrames ==
  {MkFrame(c, n, p, s.k, s.ad) :
     c \in ConnBytes, n \in budget.counters, p \in budget.payloads,
     s \in Seals}

StreamMsgs == {TextMsg, ShortFrame} \cup FullFrames

IsFull(m) == m.kind = "bin" /\ m.len >= MinFrameLen

(* ------------------------------- Init --------------------------------- *)
InitWith(b) ==
  /\ variant \in Variants
  /\ access_key_b64 \in KeyTexts
  /\ budget = b
  /\ inactivity_timeout \in b.timeouts
  /\ mpc = "try"
  /\ backoff = 1
  /\ attempt = 0
  /\ slept = 0
  /\ state = "Idle"
  /\ now = 0
  /\ exp = 0
  /\ client_nonce = 0
  /\ hello = NoHello
  /\ conn_id = <<>>
  /\ session_key = NoKey
  /\ aad = NoAad
  /\ last_counter = 0
  /\ first_bin_seen = FALSE
  /\ last_rx_ts = 0
  /\ first_bin_deadline = 0
  /\ hb_task = "none"
  /\ wd_task = "none"
  /\ ws = "none"
  /\ hb_next = 0
  /\ wd_due = FALSE
  /\ pings = <<>>
  /\ closes = <<>>
  /\ sent = <<>>
  /\ rx = <<>>
  /\ dec = {}
  /\ yielded = <<>>
  /\ file = <<>>
  /\ err = ""

\* what each specification explores: how far; which inactivity_timeout the
\* client is configured with; which values os.urandom and time.time return;
\* which counters and chunks the peer's frames carry
DeepBudget ==
  [attempts |-> MaxAttempts, msgs |-> MaxMsgs, ticks |-> 0, pings |-> 0,
   timeouts |-> {2}, cnonces |-> ClientNonces, exps |-> Exps,
   counters |-> Counters, payloads |-> Payloads, conns |-> ConnTexts]
ProbeBudget ==
  [attempts |-> 1, msgs |-> ProbeMsgs, ticks |-> ProbeTicks, pings |-> ProbePings,
   timeouts |-> {1}, cnonces |-> ClientNonces, exps |-> {1},
   counters |-> {1}, payloads |-> {<<170>>}, conns |-> ConnTexts4]
LoopBudget ==
  [attempts |-> LoopAttempts, msgs |-> LoopMsgs, ticks |-> 0, pings |-> 0,
   timeouts |-> {2}, cnonces |-> {1, 2}, exps |-> Exps,
   counters |-> Counters, payloads |-> Payloads, conns |-> ConnTexts4]
HealthBudget ==
  [attempts |-> 1, msgs |-> HealthMsgs, ticks |-> HealthTicks,
   pings |-> HealthPings, timeouts |-> {1, 2}, cnonces |-> ClientNonces,
   exps |-> {1},
   counters |-> {1}, payloads |-> {<<170>>}, conns |-> ConnTexts4]

Init == InitWith(DeepBudget) \/ InitWith(ProbeBudget)

InitLoop == InitWith(LoopBudget) \/ InitWith(ProbeBudget)

InitHealth == InitWith(HealthBudget)

(* --------------------------- main_async loop -------------------------- *)
\* the exception e leaves the generator: the attempt is Closed
Raise(e) ==
  /\ state' = "Closed"
  /\ err' = e

\* the file opened for appending: what it held is kept
Opened_Append(f) == f

\* with open(target, "wb") as f:  -- the file is created or truncated
Opened(f) == <<>>

\* main_async: await client.stream_to_file(args.out)  ->  the output file is
\* opened, then get_chunks / iter_plain_chunks starts: the access key is
\* decoded (which may raise), exp and client nonce are drawn, and
\* websockets.connect is entered
StartAttempt ==
  /\ mpc = "try"
  /\ attempt < budget.attempts
  /\ mpc' = "stream"
  /\ attempt' = attempt + 1
  /\ now' = 0
  /\ IF B64Raises(access_key_b64)
     THEN /\ Raise("binascii.Error")
          /\ exp' = 0
          /\ client_nonce' = 0
     ELSE /\ state' = "Connecting"
          /\ err' = ""
          /\ exp' \in budget.exps
          /\ client_nonce' \in budget.cnonces
  /\ ws' = "none"
  /\ file' = Opened(file)
  /\ UNCHANGED <<backoff, slept>>
  /\ UNCHANGED cfgVars
  /\ UNCHANGED sessVars
  /\ UNCHANGED healthVars

\* only the first except clause: anything else leaves main_async
Retried_OnlyClosed(e) == e = "ConnectionClosed"

\* except (websockets.ConnectionClosed, websockets.InvalidStatusCode) ...
\* except Exception ... : every exception of an attempt is caught and logged
Retried(e) == TRUE

\* the attempt is over: stream_to_file returned (backoff = 1.0) or raised
\* (logged); the generator and its locals are gone, and main_async goes on
\* to  await asyncio.sleep(min(backoff, 10.0))
AttemptEnd ==
  /\ mpc = "stream"
  /\ state = "Closed"
  /\ mpc' = IF Retried(err) THEN "sleep" ELSE "halt"
  /\ LET b == IF err = "" THEN 1 ELSE backoff
     IN /\ backoff' = b
        /\ slept' = IF Retried(err) THEN Min(b, BackoffCap) ELSE slept
  /\ state' = "Idle"
  /\ now' = 0
  /\ exp' = 0
  /\ client_nonce' = 0
  /\ hello' = NoHello
  /\ conn_id' = <<>>
  /\ session_key' = NoKey
  /\ aad' = NoAad
  /\ last_counter' = 0
  /\ first_bin_seen' = FALSE
  /\ last_rx_ts' = 0
  /\ first_bin_deadline' = 0
  /\ hb_task' = "none"
  /\ wd_task' = "none"
  /\ ws' = "none"
  /\ hb_next' = 0
  /\ wd_due' = FALSE
  /\ pings' = <<>>
  /\ closes' = <<>>
  /\ sent' = <<>>
  /\ rx' = <<>>
  /\ dec' = {}
  /\ yielded' = <<>>
  /\ err' = ""
  /\ UNCHANGED attempt
  /\ UNCHANGED cfgVars
  /\ UNCHANGED file

\* the doubling without its cap
NextBackoff_Uncapped(b) == b * 2

\* the sleep is over:  backoff = min(backoff * 2.0, 10.0)  and loop
NextBackoff(b) == Min(b * 2, BackoffCap)

Wake ==
  /\ mpc = "sleep"
  /\ mpc' = "try"
  /\ backoff' = NextBackoff(backoff)
  /\ UNCHANGED <<attempt, slept, state, now, exp, client_nonce, err, ws>>
  /\ UNCHANGED cfgVars
  /\ UNCHANGED file
  /\ UNCHANGED sessVars
  /\ UNCHANGED healthVars

(* ------------------------------ handshake ----------------------------- *)
\* websockets.connect(...) opened the transport
ConnectOk ==
  /\ state = "Connecting"
  /\ state' = "AwaitingHello"
  /\ ws' = "open"
  /\ now' = 0
  /\ UNCHANGED <<exp, client_nonce, err>>
  /\ UNCHANGED cfgVars
  /\ UNCHANGED file
  /\ UNCHANGED mainVars
  /\ UNCHANGED sessVars
  /\ UNCHANGED healthVars

\* websockets.connect(...) raised (refused, bad status, open_timeout)
ConnectFail ==
  /\ state = "Connecting"
  /\ Raise("connect failed")
  /\ UNCHANGED <<now, exp, client_nonce, ws>>
  /\ UNCHANGED cfgVars
  /\ UNCHANGED file
  /\ UNCHANGED mainVars
  /\ UNCHANGED sessVars
  /\ UNCHANGED healthVars

\* get_chunks wraps the hello recv in asyncio.wait_for(..., ws_timeout);
\* iter_plain_chunks awaits ws.recv() bare
HelloWaitBounded == variant = "gc"

\* get_chunks keeps last_rx_ts / first_bin_seen; iter_plain_chunks does not
TracksLiveness == variant = "gc"

\* self.heartbeat_interval = int(inactivity_timeout/2)
heartbeat_interval == inactivity_timeout \div 2

\* heartbeat_task's asyncio.sleep(self.heartbeat_interval) has ended
PingDue == hb_task = "running" /\ now >= hb_next

\* one second passes while the client waits for the hello, or for the next
\* message of a session. A sleep that has ended runs first: the watchdog's
\* test, and the heartbeat's send while it has pings left to explore (a
\* sleep of 0 seconds never holds the clock); so does the ConnectionClosed
\* of a transport that went down
Tick ==
  /\ \/ /\ state = "AwaitingHello"
        /\ HelloWaitBounded => now < WsTimeout
        /\ now < MaxNow
     \/ /\ state = "Streaming"
        /\ TracksLiveness
        /\ now < budget.ticks
        /\ ws # "closed"
        /\ ~wd_due
        /\ (PingDue /\ heartbeat_interval > 0) => Len(pings) >= budget.pings
  /\ now' = now + 1
  /\ wd_due' = (state = "Streaming" /\ wd_task = "running")
  /\ UNCHANGED <<state, exp, client_nonce, err, ws, hb_task, wd_task, hb_next,
                 pings, closes>>
  /\ UNCHANGED cfgVars
  /\ UNCHANGED file
  /\ UNCHANGED mainVars
  /\ UNCHANGED sessVars

\* asyncio.TimeoutError -> RuntimeError("hello timeout"); leaving the
\* async with block closes the transport
HelloTimeout ==
  /\ state = "AwaitingHello"
  /\ HelloWaitBounded
  /\ now >= WsTimeout
  /\ Raise("hello timeout")
  /\ ws' = "closed"
  /\ UNCHANGED <<now, exp, client_nonce>>
  /\ UNCHANGED cfgVars
  /\ UNCHANGED file
  /\ UNCHANGED mainVars
  /\ UNCHANGED sessVars
  /\ UNCHANGED healthVars

\* the checks without the test of the type field
HelloError_NoType(m) ==
  IF m.kind = "bin" THEN "expected hello text frame, got binary"
  ELSE IF m.json = "invalid" THEN "JSONDecodeError"
  ELSE IF m.json # "object" THEN "AttributeError"
  ELSE IF ~m.complete THEN "KeyError"
  ELSE ""

\* the error the hello checks raise for first message m ("" when it passes):
\* isinstance bytes, json.loads, hello.get("type"), hello[...] lookups
HelloError(m) ==
  IF m.kind = "bin" THEN "expected hello text frame, got binary"
  ELSE IF m.json = "invalid" THEN "JSONDecodeError"
  ELSE IF m.json # "object" THEN "AttributeError"
  ELSE IF m.type # "hello" THEN "unexpected hello"
  ELSE IF ~m.complete THEN "KeyError"
  ELSE ""

\* get_chunks sends start after the hello; iter_plain_chunks sends nothing
SendsStart == variant = "gc"

\* the first inbound message m arrived
RecvHello(m) ==
  /\ state = "AwaitingHello"
  /\ hello' = m
  /\ IF HelloError(m) # ""
     THEN /\ Raise(HelloError(m))
          /\ ws' = "closed"
          /\ UNCHANGED conn_id
     ELSE /\ conn_id' = safe_b64decode(m.conn)
          /\ state' = IF SendsStart THEN "SendingStart" ELSE "DerivingKey"
          /\ err' = err
          /\ ws' = ws
  /\ UNCHANGED <<now, exp, client_nonce, session_key, aad,
                 last_counter, first_bin_seen, last_rx_ts, first_bin_deadline,
                 sent, rx, dec, yielded>>
  /\ UNCHANGED cfgVars
  /\ UNCHANGED file
  /\ UNCHANGED mainVars
  /\ UNCHANGED healthVars

\* start_payload = {"type": "start", "conn": conn_b64, "exp": exp_srv}
StartPayload == [type |-> "start", conn |-> hello.conn, exp |-> hello.exp]

\* await ws.send(json.dumps(start_payload)) completed
SendStart ==
  /\ state = "SendingStart"
  /\ sent' = Append(sent, StartPayload)
  /\ state' = "DerivingKey"
  /\ UNCHANGED <<now, exp, client_nonce, hello, conn_id,
                 session_key, aad, last_counter, first_bin_seen, last_rx_ts,
                 first_bin_deadline, rx, dec, yielded, err, ws>>
  /\ UNCHANGED cfgVars
  /\ UNCHANGED file
  /\ UNCHANGED mainVars
  /\ UNCHANGED healthVars

\* the salt without the client's nonce
Salt_ServerOnly(cnonce, snonce) == <<0, snonce>>

\* salt = client_nonce + server_nonce
Salt(cnonce, snonce) == <<cnonce, snonce>>

\* aad = f"{conn_b64}|{exp}|{codec}|{w}x{h}|{fps}"
ClientAad == MkAad(hello.conn, exp, hello.fmt)

\* get_chunks starts the heartbeat and watchdog tasks; iter_plain_chunks
\* has none
HasHealthTasks == variant = "gc"

\* session key and associated data are derived, the health tasks created
\* (each enters its first sleep), and the receive loop is entered
DeriveKey ==
  /\ state = "DerivingKey"
  /\ session_key' =
       hkdf_sha256(AccessKey, Salt(client_nonce, hello.snonce), HkdfInfo, KeyLen)
  /\ aad' = ClientAad
  /\ last_counter' = 0
  /\ first_bin_seen' = FALSE
  /\ last_rx_ts' = 0
  /\ first_bin_deadline' = IF HasHealthTasks THEN FirstFrameTimeout ELSE 0
  /\ hb_task' = IF HasHealthTasks THEN "running" ELSE "none"
  /\ wd_task' = IF HasHealthTasks THEN "running" ELSE "none"
  /\ hb_next' = IF HasHealthTasks THEN heartbeat_interval ELSE 0
  /\ wd_due' = FALSE
  /\ state' = "Streaming"
  /\ now' = 0
  /\ UNCHANGED <<exp, client_nonce, hello, conn_id, sent, rx, dec,
                 yielded, err, ws, pings, closes>>
  /\ UNCHANGED cfgVars
  /\ UNCHANGED file
  /\ UNCHANGED mainVars

(* ----------------------------- receive loop --------------------------- *)
\* iter_plain_chunks:  if counter <= last_counter: raise ...
\* get_chunks computes the counter and never compares it
ChecksCounter == variant = "ipc"

\* a slip of the comparison: an equal counter (a replayed frame) passes
CounterRejected_Strict(counter, last) == counter < last

CounterRejected(counter, last) == counter <= last

\* an off-by-one of the length test: a 28-byte frame counts as short
IsShort_Le(m) == m.len <= MinFrameLen

IsShort(m) == m.len < MinFrameLen

\* a slip of the slice: only the first three bytes are compared
ConnMismatch_Short(m) == SubSeq(m.nonce, 1, 3) # SubSeq(conn_id, 1, 3)

\* a prefix test in place of the slice: nonce.startswith(conn_id)
ConnMismatch_Prefix(m) == SubSeq(m.nonce, 1, Len(conn_id)) # conn_id

\* nonce[:4] != conn_id
ConnMismatch(m) == SubSeq(m.nonce, 1, 4) # conn_id

\* counter = be_u64(nonce[4:12])
CounterOf(m) == be_u64(SubSeq(m.nonce, 5, 12))

\* plain = aesgcm.decrypt(nonce, join_ct_tag(ct, tag), aad)
Decrypt(m) == aesgcm_decrypt(session_key, m.nonce, join_ct_tag(m.ct, m.tag), aad)

\* the handler without its raise: the error is logged and swallowed
DecryptError_Swallowed(r) == ""

\* except Exception as e: self.log.error("decrypt error: %s", e); raise
DecryptError(r) == IF r.ok THEN "" ELSE "InvalidTag"

\* a guard on the yield: an empty chunk is held back
YieldsChunk_NonEmpty(plain) == plain # <<>>

\* yield plain : every decrypted chunk is yielded, an empty one too
YieldsChunk(plain) == TRUE

\* the test of the message's type dropped
IsText_Never(m) == FALSE

\* if isinstance(msg, str): log, continue  -- a str that got past this test
\* would make memoryview(msg) raise TypeError
IsText(m) == m.kind = "text"

\* the test without the flag: a first frame after the deadline raises
FirstBinTimeout_NoFlag(seen, t, deadline) == t > deadline

\* if not first_bin_seen and now > first_bin_deadline: raise RuntimeError(
\* "first binary frame timeout")  -- at the end of the loop body, after
\* first_bin_seen was set
FirstBinTimeout(seen, t, deadline) == ~seen /\ t > deadline

\* what one pass of the loop body does with inbound message m:
\*   err   the exception it raises ("" when none)
\*   dec   whether m reached aesgcm.decrypt
\*   out   whether a chunk was yielded, and plain, the chunk
\*   ctr   last_counter afterwards
\*   seen  first_bin_seen afterwards
Handle(m) ==
  LET skip == [err |-> "", dec |-> FALSE, out |-> FALSE, plain |-> <<>>,
               ctr |-> last_counter, seen |-> first_bin_seen]
  IN IF IsText(m) THEN skip
     ELSE IF m.kind = "text" THEN [skip EXCEPT !.err = "TypeError"]
     ELSE IF IsShort(m) THEN skip
     ELSE IF ConnMismatch(m)
       THEN [skip EXCEPT !.err = "nonce connId mismatch"]
     ELSE IF ChecksCounter /\ CounterRejected(CounterOf(m), last_counter)
       THEN [skip EXCEPT !.err = "counter not increasing"]
     ELSE LET c == IF ChecksCounter THEN CounterOf(m) ELSE last_counter
              r == Decrypt(m)
              seen == IF TracksLiveness THEN TRUE ELSE first_bin_seen
          IN IF ~r.ok
             THEN [skip EXCEPT !.err = DecryptError(r), !.dec = TRUE, !.ctr = c]
             ELSE [err |-> IF TracksLiveness
                                /\ FirstBinTimeout(seen, now, first_bin_deadline)
                           THEN "first binary frame timeout" ELSE "",
                   dec |-> TRUE, out |-> YieldsChunk(r.plain), plain |-> r.plain,
                   ctr |-> c, seen |-> seen]

\* the finally clause without its loop: no task is cancelled
Cancelled_Skipped(t) == t

\* finally: for t in (hb_task, wd_task): t.cancel()  -- a task that has
\* finished stays finished, and cancel() returns without raising
Cancelled(t) == IF t = "running" THEN "cancelled" ELSE t

\* the generator is left by an exception: the finally clause cancels the
\* health tasks, and leaving the async with block closes the transport
Leave(e) ==
  /\ Raise(e)
  /\ hb_task' = Cancelled(hb_task)
  /\ wd_task' = Cancelled(wd_task)
  /\ ws' = "closed"

\* the timestamp refreshed only by a message that yielded a chunk
LivenessMarked_OnYield(h) == h.out

\* now = time.monotonic(); last_rx_ts = now  -- right after ws.recv(), before
\* the message is looked at: whatever the loop body does with it (result h)
LivenessMarked(h) == TRUE

\* msg = await ws.recv() returned m in the receive loop; a yielded chunk is
\* consumed by stream_to_file (f.write(chunk)) before the loop goes on
RecvMsg(m) ==
  /\ state = "Streaming"
  /\ ws \in {"open", "closing"}
  /\ Len(rx) < budget.msgs
  /\ LET h == Handle(m)
         i == Len(rx) + 1
     IN /\ rx' = Append(rx, m)
        /\ last_rx_ts' = IF TracksLiveness /\ LivenessMarked(h) THEN now
                         ELSE last_rx_ts
        /\ dec' = IF h.dec THEN dec \cup {i} ELSE dec
        /\ yielded' = IF h.out THEN Append(yielded, [i |-> i, pt |-> h.plain])
                      ELSE yielded
        /\ file' = IF h.out THEN file \o h.plain ELSE file
        /\ last_counter' = h.ctr
        /\ first_bin_seen' = h.seen
        /\ IF h.err # ""
           THEN Leave(h.err)
           ELSE UNCHANGED <<state, err, hb_task, wd_task, ws>>
  /\ UNCHANGED <<now, exp, client_nonce, hello, conn_id, session_key, aad,
                 first_bin_deadline, sent, hb_next, wd_due, pings, closes>>
  /\ UNCHANGED cfgVars
  /\ UNCHANGED mainVars

\* f.write(chunk) raised in stream_to_file: the chunk is not in the file,
\* and the consumer drops the iterator, which is closed at its yield
SinkError ==
  /\ state = "Streaming"
  /\ yielded # <<>>
  /\ yielded[Len(yielded)].i = Len(rx)
  /\ Leave("OSError")
  /\ file' = SubSeq(file, 1, Len(file) - Len(yielded[Len(yielded)].pt))
  /\ UNCHANGED <<now, exp, client_nonce, hb_next, wd_due, pings, closes>>
  /\ UNCHANGED cfgVars
  /\ UNCHANGED mainVars
  /\ UNCHANGED sessVars

\* the transport went down (the peer closed or dropped it, or the closing
\* handshake the watchdog began is over) and a health task whose sleep has
\* ended runs before the pending ws.recv() raises
TransportDown ==
  /\ state = "Streaming"
  /\ (PingDue /\ Len(pings) < budget.pings) \/ (wd_task = "running" /\ wd_due)
  /\ ws \in {"open", "closing"}
  /\ ws' = "closed"
  /\ UNCHANGED <<state, now, exp, client_nonce, err>>
  /\ UNCHANGED cfgVars
  /\ UNCHANGED file
  /\ UNCHANGED mainVars
  /\ UNCHANGED sessVars
  /\ UNCHANGED healthVars

\* the transport closed under a pending ws.recv() or ws.send():
\* ConnectionClosed is raised into the generator
TransportClosed ==
  /\ state \in {"AwaitingHello", "SendingStart", "Streaming"}
  /\ Leave("ConnectionClosed")
  /\ UNCHANGED <<now, exp, client_nonce, hb_next, wd_due, pings, closes>>
  /\ UNCHANGED cfgVars
  /\ UNCHANGED file
  /\ UNCHANGED mainVars
  /\ UNCHANGED sessVars

(* ----------------------------- health tasks --------------------------- *)
\* the loop goes on after a failed send
AfterPingFailure_Retry == "running"

\* except Exception as e: ...; break
AfterPingFailure == "done"

\* a ping that counts as a sign of life: the timestamp is moved to t
PingLiveness_Refresh(ts, t) == t

\* heartbeat_task(ws) is handed the transport and nothing else: the receive
\* loop's timestamp ts is out of its reach, and is what it was at instant t
PingLiveness(ts, t) == ts

\* await asyncio.sleep(self.heartbeat_interval) is over:
\* await ws.send(json.dumps({"type": "ping", "ts": time.time()})), which
\* raises ConnectionClosed unless the transport is open
HeartbeatPing ==
  /\ PingDue
  /\ Len(pings) < budget.pings
  /\ pings' = Append(pings, [at |-> now, ok |-> ws = "open"])
  /\ hb_next' = now + heartbeat_interval
  /\ hb_task' = IF ws = "open" THEN hb_task ELSE AfterPingFailure
  /\ last_rx_ts' = PingLiveness(last_rx_ts, now)
  /\ UNCHANGED <<state, now, exp, client_nonce, err, ws, wd_task, wd_due, closes>>
  /\ UNCHANGED <<hello, conn_id, session_key, aad, last_counter, first_bin_seen,
                 first_bin_deadline, sent, rx, dec, yielded>>
  /\ UNCHANGED cfgVars
  /\ UNCHANGED file
  /\ UNCHANGED mainVars

\* a slip of the comparison: a gap equal to the timeout closes
WatchdogExpired_Ge(gap, timeout) == gap >= timeout

\* time.monotonic() - last_rx_ts_getter() > self.inactivity_timeout
WatchdogExpired(gap, timeout) == gap > timeout

\* the break only in the except clause: a close that returns is followed
\* by the next sleep
AfterClose_NoBreak(raised) == IF raised THEN "done" ELSE "running"

\* try: await ws.close(...)  finally: break
AfterClose(raised) == "done"

WatchdogClose == [code |-> 1001, reason |-> "client watchdog inactivity"]

\* await asyncio.sleep(1.0) is over: the gap is tested, and when it exceeds
\* the timeout ws.close is called, which starts the closing handshake or
\* raises
WatchdogPoll(raised) ==
  /\ wd_task = "running"
  /\ wd_due
  /\ wd_due' = FALSE
  /\ IF WatchdogExpired(now - last_rx_ts, inactivity_timeout)
     THEN /\ closes' = Append(closes, [frame |-> WatchdogClose, at |-> now,
                                       gap |-> now - last_rx_ts, raised |-> raised])
          /\ ws' = IF ws = "open" /\ ~raised THEN "closing" ELSE ws
          /\ wd_task' = AfterClose(raised)
     ELSE /\ ~raised
          /\ UNCHANGED <<closes, ws, wd_task>>
  /\ UNCHANGED <<state, now, exp, client_nonce, err, hb_task, hb_next, pings>>
  /\ UNCHANGED cfgVars
  /\ UNCHANGED file
  /\ UNCHANGED mainVars
  /\ UNCHANGED sessVars

(* ---------------------------- specification --------------------------- *)
Next ==
  \/ StartAttempt
  \/ AttemptEnd
  \/ Wake
  \/ ConnectOk
  \/ ConnectFail
  \/ Tick
  \/ HelloTimeout
  \/ \E m \in FirstMsgs : RecvHello(m)
  \/ SendStart
  \/ DeriveKey
  \/ \E m \in StreamMsgs : RecvMsg(m)
  \/ SinkError
  \/ TransportDown
  \/ TransportClosed
  \/ HeartbeatPing
  \/ \E raised \in BOOLEAN : WatchdogPoll(raised)

Spec == Init /\ [][Next]_vars

LoopSpec == InitLoop /\ [][Next]_vars

HealthSpec == InitHealth /\ [][Next]_vars

\* the scheduling of main_async: an attempt that is over is logged, the
\* sleep returns, and the loop starts the next attempt
FairLoopSpec ==
  /\ LoopSpec
  /\ WF_vars(AttemptEnd)
  /\ WF_vars(Wake)
  /\ WF_vars(StartAttempt)

(* ----------------------------- properties ---------------------------- *)
\* helpers of the claims, stated over the arrival log rx
YieldedAt(i) == \E k \in 1..Len(yielded) : yielded[k].i = i
HelloConnId == B64Conn[hello.conn]
WrongConn(m) == IsFull(m) /\ SubSeq(m.nonce, 1, 4) # HelloConnId
RightConn(m) == IsFull(m) /\ SubSeq(m.nonce, 1, 4) = HelloConnId
Authentic(m) == m.tag = GcmTag(session_key, m.nonce, aad, m.ct)
FrameCounter(m) == be_u64(SubSeq(m.nonce, 5, 12))

\* C1: in get_chunks every yielded frame has a counter strictly greater than
\* the counter of the frame yielded before it, and a frame whose counter is
\* not greater than the last accepted one ends the session with an error
\* instead of being yielded.
C1_YieldedCountersIncrease ==
  variant = "gc" =>
    \A k \in 1..Len(yielded) :
      k > 1 => FrameCounter(rx[yielded[k - 1].i]) < FrameCounter(rx[yielded[k].i])

\* C2: in iter_plain_chunks, of two consecutive full-length frames carrying
\* the handshake's connection id, a second whose counter is not greater than
\* the first's is rejected with the ordering error, never decrypted or
\* yielded, and is the last message processed; a second with a greater
\* counter, both frames authentic, is yielded right after the first.
ConsecutiveFrames(i, j) ==
  /\ i < j
  /\ RightConn(rx[i])
  /\ RightConn(rx[j])
  /\ \A k \in (i + 1)..(j - 1) : ~IsFull(rx[k])

C2_ReplayRejected ==
  variant = "ipc" =>
    \A i \in 1..Len(rx) : \A j \in 1..Len(rx) :
      ConsecutiveFrames(i, j) =>
        /\ FrameCounter(rx[j]) <= FrameCounter(rx[i]) =>
             /\ state = "Closed"
             /\ err = "counter not increasing"
             /\ j = Len(rx)
             /\ j \notin dec
             /\ ~YieldedAt(j)
        /\ (/\ FrameCounter(rx[j]) > FrameCounter(rx[i])
            /\ Authentic(rx[i])
            /\ Authentic(rx[j])) =>
             \E k \in 1..(Len(yielded) - 1) :
               /\ yielded[k] = [i |-> i, pt |-> rx[i].ct.pt]
               /\ yielded[k + 1] = [i |-> j, pt |-> rx[j].ct.pt]

\* C2 witness: counters 1, 256, 1 on one connection: the first two frames
\* were yielded in order and the third was rejected.
C2_Witness ==
  /\ variant = "ipc"
  /\ Len(rx) = 3
  /\ \A i \in 1..3 : RightConn(rx[i])
  /\ FrameCounter(rx[1]) < FrameCounter(rx[2])
  /\ FrameCounter(rx[3]) <= FrameCounter(rx[2])
  /\ Len(yielded) = 2
  /\ err = "counter not increasing"

\* C3: a frame of at least 28 bytes whose first 4 bytes differ from the
\* hello's conn id is never handed to AEAD decryption and never yielded; it
\* ends the session with an error and is the last message processed.
C3_WrongConnRejected ==
  \A i \in 1..Len(rx) :
    WrongConn(rx[i]) =>
      /\ i \notin dec
      /\ ~YieldedAt(i)
      /\ state = "Closed"
      /\ err = "nonce connId mismatch"
      /\ i = Len(rx)

\* C3 witness: a frame of another connection that would authenticate was
\* received after a chunk had been yielded.
C3_Witness ==
  /\ Len(rx) = 2
  /\ YieldedAt(1)
  /\ WrongConn(rx[2])
  /\ Authentic(rx[2])
  /\ state = "Closed"

\* C4: a frame that fails authentication in aesgcm.decrypt yields nothing,
\* its error leaves the chunk iterator, and no later message of the
\* connection is received or decrypted.
C4_AuthFailureFatal ==
  \A i \in dec :
    ~Authentic(rx[i]) =>
      /\ ~YieldedAt(i)
      /\ state = "Closed"
      /\ err = "InvalidTag"
      /\ i = Len(rx)
      /\ \A j \in dec : j <= i

\* C4 witness: a forged frame reached decryption after a chunk was yielded.
C4_Witness ==
  /\ Len(rx) = 2
  /\ YieldedAt(1)
  /\ 2 \in dec
  /\ ~Authentic(rx[2])
  /\ state = "Closed"

\* C5: when the hello's exp differs from the exp the client requested, the
\* handshake goes on, the start message echoes the server's exp, and the
\* associated data of the session is built from the server's exp.
C5_ServerExpInAad ==
  (state = "Streaming" /\ hello.exp # exp) =>
    /\ aad = MkAad(hello.conn, hello.exp, hello.fmt)
    /\ \A k \in 1..Len(sent) :
         sent[k].type = "start" => sent[k].exp = hello.exp

\* C6: a first inbound message that is binary, or a text that is not a JSON
\* object with type "hello", ends the attempt with an error before any start
\* message is sent, any key derived, any health task started or any frame
\* received or decrypted.
NotAHello(m) == m.kind = "bin" \/ ~(m.json = "object" /\ m.type = "hello")

C6_BadFirstMessageFatal ==
  (hello # NoHello /\ NotAHello(hello)) =>
    /\ state = "Closed"
    /\ err # ""
    /\ sent = <<>>
    /\ session_key = NoKey
    /\ aad = NoAad
    /\ hb_task = "none"
    /\ wd_task = "none"
    /\ rx = <<>>
    /\ dec = {}
    /\ yielded = <<>>

\* C6 witness: a JSON object of another type, carrying every hello field,
\* was the first message and the attempt is over.
C6_Witness ==
  /\ hello.kind = "text"
  /\ hello.json = "object"
  /\ hello.type = "other"
  /\ hello.complete
  /\ state = "Closed"

\* C7: an attempt never waits for the hello longer than the configured hello
\* timeout: when the timeout has passed without a message, the attempt has
\* left AwaitingHello.
C7_HelloWaitBounded ==
  state = "AwaitingHello" => now <= WsTimeout

\* C8: in every attempt that hands a frame to decryption, a valid hello was
\* received, exactly one start message echoing the server's conn and exp was
\* sent, and the session key was derived.
C8_StartSentBeforeDecrypt ==
  dec # {} =>
    /\ HelloError(hello) = ""
    /\ sent = <<[type |-> "start", conn |-> hello.conn, exp |-> hello.exp]>>
    /\ session_key # NoKey

\* C9: receiving a binary message shorter than 28 bytes in Streaming leaves
\* the session in Streaming with no error, nothing yielded or decrypted and
\* the replay counter unchanged, so the next message is handled as if the
\* short one had not come; a message of exactly 28 bytes is not dropped: it
\* reaches decryption or ends the session.
C9_ShortFrameDropped ==
  [][ Len(rx') = Len(rx) + 1 =>
        LET m == rx'[Len(rx')]
        IN /\ (m.kind = "bin" /\ m.len < MinFrameLen) =>
                /\ state' = "Streaming"
                /\ err' = ""
                /\ yielded' = yielded
                /\ dec' = dec
                /\ last_counter' = last_counter
                /\ first_bin_seen' = first_bin_seen
                /\ session_key' = session_key
                /\ conn_id' = conn_id
                /\ aad' = aad
           /\ (m.kind = "bin" /\ m.len = MinFrameLen) =>
                (dec' # dec \/ state' = "Closed") ]_vars

\* C9 witness: a short frame came first and the 28-byte frame after it was
\* decrypted and yielded.
C9_Witness ==
  /\ Len(rx) = 2
  /\ rx[1].kind = "bin"
  /\ rx[1].len < MinFrameLen
  /\ rx[2].len = MinFrameLen
  /\ YieldedAt(2)
  /\ state = "Streaming"

\* C10: the wait after the n-th consecutive failed attempt is
\* min(2^(n-1), 10) seconds, the backoff variable always lies in 1..10 and no
\* wait exceeds 10 seconds.
RECURSIVE Pow2(_)
Pow2(n) == IF n = 0 THEN 1 ELSE 2 * Pow2(n - 1)

C10_BackoffSchedule ==
  /\ backoff \in 1..10
  /\ slept <= 10
  /\ mpc = "sleep" => slept = Min(Pow2(attempt - 1), 10)

\* C10 witness: the sixth attempt in a row failed and the loop sleeps 10 s.
C10_Witness ==
  /\ mpc = "sleep"
  /\ attempt = 6
  /\ slept = 10

\* C11: in main_async, the wait that follows an attempt which yielded at
\* least one decrypted chunk before it failed is 1 s, whatever the number of
\* failed attempts before it, and the doubling restarts from 1 s.
C11_BackoffResetAfterProgress ==
  [][ (mpc = "stream" /\ mpc' = "sleep" /\ yielded # <<>>) =>
        (slept' = 1 /\ backoff' = 1) ]_vars

\* C12: the reconnect loop never stops because an attempt failed: whatever
\* exception ended the attempt (connect failure, handshake error, hello
\* timeout, frame error, transport closure), main_async waits and starts the
\* next attempt, after any number of failures in a row.
C12_LoopNeverStops ==
  /\ [](mpc # "halt")
  /\ \A n \in 1..LoopAttempts :
       (attempt = n /\ n < budget.attempts /\ state = "Closed")
         ~> (attempt = n + 1 /\ mpc = "stream")

\* C12 witness: the last attempt of the exploration is connecting, every
\* attempt before it having failed.
C12_Witness ==
  /\ attempt = budget.attempts
  /\ attempt >= 7
  /\ state = "Connecting"

\* C13: an access key that cannot be base64-decoded is a fatal configuration
\* error: after it is reported the reconnect loop starts no further attempt.
C13_ConfigErrorNotRetried ==
  B64Raises(access_key_b64) => attempt <= 1

\* C14: watchdog_task calls ws.close (code 1001, reason "client watchdog
\* inactivity") only at a poll at which the time since the last receive
\* exceeds inactivity_timeout, it does so at the first such poll, and after
\* the call -- returned or raised -- it has stopped: no later poll, no
\* second close.
WatchdogPolls == wd_task = "running" /\ wd_due /\ ~wd_due'

C14_WatchdogClosesOnce ==
  [][ /\ Len(closes') > Len(closes) =>
           /\ WatchdogPolls
           /\ now - last_rx_ts > inactivity_timeout
           /\ closes = <<>>
           /\ Len(closes') = 1
           /\ closes'[1].frame =
                [code |-> 1001, reason |-> "client watchdog inactivity"]
           /\ wd_task' = "done"
      /\ (WatchdogPolls /\ now - last_rx_ts > inactivity_timeout) =>
           Len(closes') > Len(closes)
      /\ (WatchdogPolls /\ now - last_rx_ts <= inactivity_timeout) =>
           (closes' = closes /\ wd_task' = "running" /\ ws' = ws)
      /\ (wd_task = "done" /\ mpc' = "stream") =>
           (wd_task' = "done" /\ closes' = closes /\ wd_due' = FALSE) ]_vars

\* C14 witness: the close call raised, the watchdog has stopped, and a
\* second has passed since without another poll.
C14_Witness ==
  /\ Len(closes) = 1
  /\ closes[1].raised
  /\ wd_task = "done"
  /\ state = "Streaming"
  /\ now > closes[1].at
  /\ ~wd_due

\* C15: in get_chunks with the watchdog running, no inbound message is
\* processed by the receive loop once more than inactivity_timeout has
\* passed since the last inbound message: the watchdog has closed the
\* transport before.
C15_NoFrameAfterSilence ==
  [][ (variant = "gc" /\ wd_task = "running" /\ Len(rx') = Len(rx) + 1) =>
        now - last_rx_ts <= inactivity_timeout ]_vars

\* C16: in get_chunks, whichever way the receive loop is left after the
\* health tasks were started, cancellation is requested on both tasks, the
\* error that leaves the generator is the one of that path (cancelling adds
\* none, also for a task that had finished), and once the session is Closed
\* no ping is sent and no close is called.
LeavePaths ==
  {"nonce connId mismatch", "InvalidTag", "ConnectionClosed", "OSError"}

C16_TasksCancelledOnExit ==
  [][ /\ (variant = "gc" /\ state = "Streaming" /\ state' = "Closed") =>
           /\ hb_task' = (IF hb_task = "running" THEN "cancelled" ELSE "done")
           /\ wd_task' = (IF wd_task = "running" THEN "cancelled" ELSE "done")
           /\ err' \in LeavePaths
      /\ state = "Closed" =>
           /\ Len(pings') <= Len(pings)
           /\ Len(closes') <= Len(closes)
           /\ hb_task' \in {hb_task, "none"}
           /\ wd_task' \in {wd_task, "none"} ]_vars

\* C16 witness: the watchdog had closed the transport and finished, the
\* heartbeat was still running when the loop was left.
C16_Witness ==
  /\ state = "Closed"
  /\ err = "ConnectionClosed"
  /\ Len(closes) = 1
  /\ wd_task = "done"
  /\ hb_task = "cancelled"

\* C17: the time between two consecutive pings of heartbeat_task is exactly
\* half the configured inactivity_timeout, so it is never zero.
C17_PingPeriodHalfTimeout ==
  \A k \in 2..Len(pings) :
    2 * (pings[k].at - pings[k - 1].at) = inactivity_timeout

\* C18: the chunks yielded in a session are, in order, exactly the
\* plaintexts of the inbound frames that passed all checks, in their order
\* of arrival: none twice, none out of order, and no message is received
\* while the chunk of an accepted frame is still to be yielded.
PassedChecks(i) ==
  /\ RightConn(rx[i])
  /\ Authentic(rx[i])
  /\ variant = "ipc" =>
       /\ FrameCounter(rx[i]) > 0
       /\ \A j \in 1..(i - 1) :
            IsFull(rx[j]) => FrameCounter(rx[j]) < FrameCounter(rx[i])

C18_YieldedInArrivalOrder ==
  /\ \A k \in 1..Len(yielded) :
       /\ yielded[k].i \in 1..Len(rx)
       /\ PassedChecks(yielded[k].i)
       /\ yielded[k].pt = rx[yielded[k].i].ct.pt
  /\ \A k \in 2..Len(yielded) : yielded[k - 1].i < yielded[k].i
  /\ \A i \in 1..Len(rx) : PassedChecks(i) => YieldedAt(i)

\* C18 witness: two frames were accepted, the second an empty chunk, with a
\* dropped message between them.
C18_Witness ==
  /\ Len(rx) = 3
  /\ ~IsFull(rx[2])
  /\ Len(yielded) = 2
  /\ yielded[1].i = 1
  /\ yielded[2] = [i |-> 3, pt |-> <<>>]

\* C19: every attempt works on session state of its own: nonce and exp are
\* drawn and the hello is received in this attempt before a key exists; the
\* key, conn id and associated data a frame is accepted with are those
\* derived from this attempt's nonces and hello; the replay counter of
\* iter_plain_chunks counts this attempt's frames only; and between attempts
\* no session state exists.
RECURSIVE MaxCounter(_)
MaxCounter(n) ==
  IF n = 0 THEN 0
  ELSE LET c == IF RightConn(rx[n]) THEN FrameCounter(rx[n]) ELSE 0
           r == MaxCounter(n - 1)
       IN IF c > r THEN c ELSE r

C19_FreshSessionState ==
  /\ mpc # "stream" =>
       /\ session_key = NoKey
       /\ conn_id = <<>>
       /\ aad = NoAad
       /\ last_counter = 0
       /\ hello = NoHello
       /\ client_nonce = 0
       /\ exp = 0
  /\ state \in {"Connecting", "AwaitingHello"} =>
       /\ client_nonce \in budget.cnonces
       /\ exp \in budget.exps
       /\ hello = NoHello
  /\ state \in {"Connecting", "AwaitingHello", "SendingStart", "DerivingKey"} =>
       /\ session_key = NoKey
       /\ aad = NoAad
       /\ last_counter = 0
       /\ rx = <<>>
  /\ session_key # NoKey =>
       /\ session_key =
            hkdf_sha256(AccessKey, <<client_nonce, hello.snonce>>, HkdfInfo, KeyLen)
       /\ conn_id = B64Conn[hello.conn]
       /\ aad = MkAad(hello.conn, exp, hello.fmt)
       /\ variant = "ipc" => last_counter = MaxCounter(Len(rx))
       /\ \A k \in 1..Len(yielded) :
            rx[yielded[k].i].tag.key =
              hkdf_sha256(AccessKey, <<client_nonce, hello.snonce>>, HkdfInfo, KeyLen)

\* C19 witness: a later attempt of iter_plain_chunks, with another client
\* nonce than 1, accepted a frame numbered 1.
C19_Witness ==
  /\ variant = "ipc"
  /\ attempt = 3
  /\ client_nonce = 2
  /\ Len(yielded) = 1
  /\ last_counter = 1

\* C20: a ping whose send fails ends heartbeat_task at once and touches
\* nothing else: no further ping is tried, the receive loop stays where it
\* is with no error, the watchdog is left alone, and the session ends only
\* when the receive path ends it.
PingFailed(ps) == ps # <<>> /\ ~ps[Len(ps)].ok

C20_HeartbeatFailureSilent ==
  [][ /\ (Len(pings') = Len(pings) + 1 /\ PingFailed(pings')) =>
           /\ hb_task' = "done"
           /\ state' = state
           /\ err' = err
           /\ wd_task' = wd_task
           /\ wd_due' = wd_due
           /\ closes' = closes
           /\ ws' = ws
           /\ rx' = rx
           /\ yielded' = yielded
      /\ PingFailed(pings) => Len(pings') <= Len(pings) ]_vars

\* C20 witness: a ping failed on a transport that went down, the heartbeat
\* is over, and the session is still Streaming with the watchdog running.
C20_Witness ==
  /\ PingFailed(pings)
  /\ hb_task = "done"
  /\ wd_task = "running"
  /\ state = "Streaming"
  /\ ws = "closed"

\* C21: in get_chunks the receive path is the only writer of the
\* last-receive timestamp: a step of the heartbeat or of the watchdog leaves
\* it as it was, and decrypts nothing and leaves session key, aad, conn_id,
\* replay state, first-frame flag, arrival log and yielded chunks unchanged,
\* wherever among the receive steps it falls; the watchdog's step depends on
\* the timestamp only through the gap it tests; and the timestamp moves only
\* in a step that received a message (or when the attempt's locals go).
HeartbeatPings == Len(pings') = Len(pings) + 1

C21_HealthTasksShareOnlyTimestamp ==
  [][ /\ (HeartbeatPings \/ WatchdogPolls) =>
           /\ last_rx_ts' = last_rx_ts
           /\ dec' = dec
           /\ session_key' = session_key
           /\ aad' = aad
           /\ conn_id' = conn_id
           /\ last_counter' = last_counter
           /\ first_bin_seen' = first_bin_seen
           /\ rx' = rx
           /\ yielded' = yielded
      /\ WatchdogPolls =>
           (closes' # closes) = (now - last_rx_ts > inactivity_timeout)
      /\ last_rx_ts' # last_rx_ts =>
           \/ Len(rx') = Len(rx) + 1 /\ last_rx_ts' = now
           \/ mpc' # "stream"
      /\ dec' # dec => (Len(rx') = Len(rx) + 1 \/ mpc' # "stream") ]_vars

\* C21 witness: pings and watchdog polls fell before and after a message:
\* the message of second 1 moved the timestamp, the poll of second 2 read a
\* gap of 1 and went back to sleep, and the ping of second 2 was sent.
C21_Witness ==
  /\ variant = "gc"
  /\ state = "Streaming"
  /\ Len(rx) = 1
  /\ last_rx_ts = 1
  /\ now = 2
  /\ wd_task = "running"
  /\ ~wd_due
  /\ closes = <<>>
  /\ Len(pings) = 2
  /\ pings[2].at = 2

\* C22: get_chunks never ends with the "first binary frame timeout" error,
\* however late the first binary frame arrives and also when none arrives:
\* the test runs only at the end of a loop pass that accepted a frame, after
\* first_bin_seen was set, so a first frame that comes after the deadline is
\* yielded like any other.
C22_FirstFrameTimeoutUnreachable ==
  /\ err # "first binary frame timeout"
  /\ (variant = "gc" /\ yielded # <<>>) => first_bin_seen
  /\ (variant = "gc" /\ state = "Streaming" /\ ~first_bin_seen) => yielded = <<>>

\* C22 witness: the first binary frame arrived after first_bin_deadline, was
\* decrypted and yielded, and the session is still Streaming without error.
C22_Witness ==
  /\ variant = "gc"
  /\ state = "Streaming"
  /\ err = ""
  /\ Len(yielded) = 1
  /\ yielded[1].i = Len(rx)
  /\ last_rx_ts > first_bin_deadline
  /\ now = last_rx_ts
  /\ first_bin_seen

\* C23: a text message received in Streaming is logged and skipped. In
\* get_chunks its only effect is that the last-receive timestamp becomes the
\* current time: state, error, session key, aad, conn_id, first-frame flag,
\* decrypted set, yielded chunks and output file stay as they were. In
\* iter_plain_chunks it leaves the replay counter (and everything else of
\* the session) unchanged.
C23_TextOnlyMarksLiveness ==
  [][ (Len(rx') = Len(rx) + 1 /\ rx'[Len(rx')].kind = "text") =>
        /\ state = "Streaming"
        /\ state' = "Streaming"
        /\ err' = ""
        /\ session_key' = session_key
        /\ aad' = aad
        /\ conn_id' = conn_id
        /\ first_bin_seen' = first_bin_seen
        /\ last_counter' = last_counter
        /\ dec' = dec
        /\ yielded' = yielded
        /\ file' = file
        /\ variant = "gc" => last_rx_ts' = now
        /\ variant = "ipc" => last_rx_ts' = last_rx_ts ]_vars

\* C23 witness: in get_chunks a text message arrived one second into the
\* session: the timestamp is that second, and the session is Streaming with
\* nothing decrypted or yielded and the first-frame flag still unset.
C23_Witness ==
  /\ variant = "gc"
  /\ state = "Streaming"
  /\ Len(rx) = 1
  /\ rx[1].kind = "text"
  /\ last_rx_ts = 1
  /\ now = 1
  /\ ~first_bin_seen
  /\ dec = {}
  /\ yielded = <<>>

\* C24: in get_chunks every inbound message moves the last-receive timestamp
\* to the current time before it is validated, also a text message, a short
\* frame and a frame that then fails a check. A text message or a short
\* frame leaves the session Streaming with nothing yielded and no close; and
\* the watchdog closes only when more than inactivity_timeout has passed
\* since the last message of any kind, so a peer sending only such messages
\* at intervals within the timeout is never closed and never yields a chunk.
C24_AnyMessageKeepsAlive ==
  [][ variant = "gc" =>
        /\ Len(rx') = Len(rx) + 1 => last_rx_ts' = now
        /\ (Len(rx') = Len(rx) + 1 /\ ~IsFull(rx'[Len(rx')])) =>
             /\ state' = "Streaming"
             /\ err' = ""
             /\ yielded' = yielded
             /\ closes' = closes
             /\ wd_task' = wd_task
        /\ (WatchdogPolls /\ now - last_rx_ts <= inactivity_timeout) =>
             (closes' = closes /\ wd_task' = "running" /\ state' = "Streaming")
        /\ Len(closes') > Len(closes) =>
             now - last_rx_ts > inactivity_timeout ]_vars

\* C24 witness: with a timeout of 1 second a short frame came at second 1;
\* the watchdog's test of second 2, which without it would have closed the
\* transport, found a gap of 1 and went back to sleep; nothing was yielded.
C24_Witness ==
  /\ variant = "gc"
  /\ state = "Streaming"
  /\ inactivity_timeout = 1
  /\ Len(rx) = 1
  /\ rx[1].kind = "bin"
  /\ ~IsFull(rx[1])
  /\ last_rx_ts = 1
  /\ now = 2
  /\ ~wd_due
  /\ wd_task = "running"
  /\ closes = <<>>
  /\ yielded = <<>>

\* C25: in iter_plain_chunks the replay counter is 0 when a session enters
\* Streaming and stays 0 until a frame passes the counter test; the test is
\* counter <= last_counter, so an authentic frame of this connection that
\* carries counter 0, arriving before any frame was accepted, ends the
\* session with the counter-not-increasing error: it is neither decrypted
\* nor yielded.
C25_FirstCounterZeroRejected ==
  [][ variant = "ipc" =>
        /\ (state # "Streaming" /\ state' = "Streaming") => last_counter' = 0
        /\ (state = "Streaming" /\ dec = {}) => last_counter = 0
        /\ (/\ Len(rx') = Len(rx) + 1
            /\ dec = {}
            /\ RightConn(rx'[Len(rx')])
            /\ Authentic(rx'[Len(rx')])
            /\ FrameCounter(rx'[Len(rx')]) = 0) =>
             /\ state' = "Closed"
             /\ err' = "counter not increasing"
             /\ dec' = {}
             /\ yielded' = yielded
             /\ file' = file ]_vars

\* C25 witness: the very first message of an iter_plain_chunks session was
\* an authentic frame of this connection with counter 0, and the session is
\* Closed with the counter error, nothing decrypted, nothing yielded.
C25_Witness ==
  /\ variant = "ipc"
  /\ state = "Closed"
  /\ err = "counter not increasing"
  /\ Len(rx) = 1
  /\ RightConn(rx[1])
  /\ Authentic(rx[1])
  /\ FrameCounter(rx[1]) = 0
  /\ dec = {}
  /\ yielded = <<>>

\* C26: the output file is opened in truncating write mode when an attempt
\* starts, before the transport is opened. While an attempt runs and when it
\* has ended the file holds exactly the chunks this attempt yielded and
\* stream_to_file wrote, in order (all the yielded chunks, unless the write
\* of the last one raised); between attempts it stays as the last attempt
\* left it; and the start of the next attempt empties it, so what earlier
\* attempts wrote is gone also when the new attempt fails before its
\* handshake completes.
RECURSIVE ChunkBytes(_)
ChunkBytes(y) == IF y = <<>> THEN <<>>
                 ELSE ChunkBytes(SubSeq(y, 1, Len(y) - 1)) \o y[Len(y)].pt

WrittenChunks(y, e) == IF e = "OSError" THEN SubSeq(y, 1, Len(y) - 1) ELSE y

C26_FileHoldsLatestAttempt ==
  [][ /\ (mpc = "try" /\ mpc' = "stream") =>
           (file' = <<>> /\ ws' = "none" /\ state' \in {"Connecting", "Closed"})
      /\ mpc' = "stream" => file' = ChunkBytes(WrittenChunks(yielded', err'))
      /\ mpc' # "stream" => file' = file ]_vars

\* C26 witness: the first attempt yielded two chunks and ended; the file
\* holds them while main_async is about to start the second attempt, whose
\* open will discard them.
C26_Witness ==
  /\ mpc = "try"
  /\ attempt = 1
  /\ attempt < budget.attempts
  /\ Len(file) = 2

\* C27: the hello's conn is decoded and kept whatever its length. When it
\* decodes to a byte string that is not 4 bytes long, the hello is still
\* accepted and the handshake goes on to Streaming; from then on every
\* binary frame of at least 28 bytes differs from it in its first four
\* nonce bytes, so the first such frame ends the session with the conn-id
\* mismatch error before decryption, and the session never yields a chunk.
OddConn == conn_id # <<>> /\ Len(conn_id) # 4

C27_OddConnNeverYields ==
  OddConn =>
    /\ state \in {"SendingStart", "DerivingKey", "Streaming", "Closed"}
    /\ state = "Closed" => err \in {"nonce connId mismatch", "ConnectionClosed"}
    /\ yielded = <<>>
    /\ dec = {}
    /\ file = <<>>
    /\ \A i \in 1..Len(rx) :
         IsFull(rx[i]) =>
           /\ i = Len(rx)
           /\ state = "Closed"
           /\ err = "nonce connId mismatch"

\* C27 witness: a hello whose conn decodes to 3 bytes was accepted, the
\* session reached Streaming and took a text message, and then a frame the
\* server sealed for this session, whose nonce begins with those 3 bytes,
\* ended it with the conn-id mismatch error.
C27_Witness ==
  /\ OddConn
  /\ state = "Closed"
  /\ err = "nonce connId mismatch"
  /\ Len(rx) = 2
  /\ rx[1].kind = "text"
  /\ IsFull(rx[2])
  /\ Authentic(rx[2])
  /\ SubSeq(rx[2].nonce, 1, Len(conn_id)) = conn_id

=============================================================================
